---- MODULE Spec2Model ----
(***************************************************************************)
(* Model of bitrix_sync/service.py: the GDPR masking utilities, the        *)
(* Bitrix24 client (retrying requests, get/update/delete of contacts) and  *)
(* BitrixSyncService.sync_church_contacts, the bidirectional sync pass.    *)
(*                                                                         *)
(* Python values are encoded as records [k |-> kind, v |-> payload]:       *)
(* None, str (a sequence of one-character strings), int and dict (a        *)
(* function from key strings to Python values).                            *)
(***************************************************************************)
EXTENDS Integers, Sequences, FiniteSets, TLC

(***************************************************************************)
(* Python values                                                           *)
(***************************************************************************)
PyNone == [k |-> "none"]
PyStr(s) == [k |-> "str", v |-> s]
PyInt(n) == [k |-> "int", v |-> n]
PyDict(d) == [k |-> "dict", v |-> d]
EmptyDict == PyDict(<<>>)

\* Python truthiness (`if x`).
Truthy(x) ==
    CASE x.k = "none" -> FALSE
      [] x.k = "str"  -> Len(x.v) > 0
      [] x.k = "int"  -> x.v # 0
      [] x.k = "dict" -> DOMAIN x.v # {}

\* dict.get(key): None when the key is absent.
DictGet(x, key) == IF key \in DOMAIN x.v THEN x.v[key] ELSE PyNone

\* s[:n] on a str.
Prefix(s, n) == SubSeq(s, 1, IF Len(s) < n THEN Len(s) ELSE n)

\* Index of the first "/" of s, 0 when there is none.
FirstSlash(s) ==
    IF \E i \in 1..Len(s) : s[i] = "/"
    THEN CHOOSE i \in 1..Len(s) : s[i] = "/" /\ \A j \in 1..(i - 1) : s[j] # "/"
    ELSE 0

\* s.split('/')[0]
SplitHead(s) == IF FirstSlash(s) = 0 THEN s ELSE SubSeq(s, 1, FirstSlash(s) - 1)

(***************************************************************************)
(* Masking rules of mask_special_category_data.  Each rule is a pair: the  *)
(* inputs on which the Python lambda raises, and its value elsewhere.      *)
(***************************************************************************)
\* The rule keeps the religion as it is.
ReligionRuleKeepsDetail(x) == x
\* 'religion': lambda x: x.split('/')[0] if x and '/' in x else x
ReligionThrows(x) == Truthy(x) /\ x.k = "int"
ReligionRule(x) ==
    IF Truthy(x) /\ x.k = "str" /\ FirstSlash(x.v) # 0 THEN PyStr(SplitHead(x.v)) ELSE x

\* 'sacrament_dates': lambda x: {k: v[:4] for k, v in x.items()} if x else {}
SacramentThrows(x) ==
    Truthy(x) /\ (x.k # "dict" \/ \E key \in DOMAIN x.v : x.v[key].k # "str")
SacramentRule(x) ==
    IF Truthy(x) THEN PyDict([key \in DOMAIN x.v |-> PyStr(Prefix(x.v[key].v, 4))])
    ELSE EmptyDict

\* 'burial_location': lambda x: {'cemetery': ..., 'section': ...} if x else None
BurialThrows(x) == Truthy(x) /\ x.k # "dict"
BurialRule(x) ==
    IF Truthy(x)
    THEN PyDict([cemetery |-> DictGet(x, "cemetery"), section |-> DictGet(x, "section")])
    ELSE PyNone

\* mask_phone: `re` is never imported, so the substitution raises NameError
\* for every phone that is not falsy.
MaskPhoneThrows(phone) == Truthy(phone)
MaskPhone(phone) == PyNone

\* 'next_of_kin' (Lithuania)
NextOfKinThrows(x) ==
    Truthy(x) /\ (x.k # "dict" \/ MaskPhoneThrows(DictGet(x, "phone")))
NextOfKinRule(x) ==
    IF Truthy(x)
    THEN PyDict([name  |-> IF DictGet(x, "relationship") = PyStr(<<"s","p","o","u","s","e">>)
                           THEN PyStr(<<"R","E","D","A","C","T","E","D">>)
                           ELSE DictGet(x, "name"),
                 phone |-> MaskPhone(DictGet(x, "phone"))])
    ELSE PyNone

\* The keys of special_fields for a country code, and those whose masker is
\* not None.  The Lithuanian overrides are selected by country_code == 'LT'.
SpecialFields(country_code) ==
    {"religion", "sacrament_dates", "burial_location"}
        \cup (IF country_code = "LT" THEN {"next_of_kin", "confession_records"} ELSE {})
HasMasker(field) == field # "confession_records"

RuleThrows(field, x) ==
    CASE field = "religion"        -> ReligionThrows(x)
      [] field = "sacrament_dates" -> SacramentThrows(x)
      [] field = "burial_location" -> BurialThrows(x)
      [] field = "next_of_kin"     -> NextOfKinThrows(x)

Rule(field, x) ==
    CASE field = "religion"        -> ReligionRule(x)
      [] field = "sacrament_dates" -> SacramentRule(x)
      [] field = "burial_location" -> BurialRule(x)
      [] field = "next_of_kin"     -> NextOfKinRule(x)

\* The except branch of the masking loop leaks the value it failed to mask.
OnMaskFailureLeak(x) == x
\* except Exception: masked[field] = None
OnMaskFailure(x) == PyNone

\* One iteration of the masking loop: try masker(masked[field]).
MaskField(field, x) ==
    IF RuleThrows(field, x) THEN OnMaskFailure(x) ELSE Rule(field, x)

\* mask_special_category_data(data, country_code)
mask_special_category_data(data, country_code) ==
    [f \in DOMAIN data |->
        IF f \in SpecialFields(country_code) /\ HasMasker(f)
        THEN MaskField(f, data[f])
        ELSE data[f]]

(***************************************************************************)
(* Bounds of the model and constants of the program                        *)
(***************************************************************************)
\* Number of sync_church_contacts invocations explored.
MaxRuns == 2
\* Number of changes made by the users of the two systems.
MaxEdits == 2

MAX_RETRIES == 3
\* RETRY_DELAY = 1.5 seconds, in tenths of a second
RETRY_DELAY == 15

\* Concurrent callers of sync_church_contacts (scheduled task instances).
Passes == {1, 2}
\* Bitrix24 contact identifiers.
Ids == {1, 2}
\* The contacts that users and data subjects change; the others stay as the
\* last sync left them.
Changing == {1}
\* datetime None (no successful sync yet); timestamps are naturals.
NoTime == -1

(***************************************************************************)
(* JSON text held by the remote custom fields                              *)
(***************************************************************************)
json_dumps(x) == [k |-> "json", v |-> x]
BadJson == [k |-> "badjson"]
json_loads_throws(t) == t.k # "json"
json_loads(t) == t.v

S(a) == PyStr(<<a>>)
Jonas == S("Jonas")
Jonaitis == S("Jonaitis")
Phone == S("+37060000000")
Email == S("jonas@example.lt")
REDACTED == S("[REDACTED]")

Catholic == PyStr(<<"C", "a", "t", "h">>)
CatholicRomanRite == PyStr(<<"C", "a", "t", "h", "/", "R", "R">>)
FullDate == PyStr(<<"2", "0", "2", "0", "-", "0", "5">>)
YearOnly == PyStr(<<"2", "0", "2", "0">>)
Cemetery == S("Rasos")
Gps == S("54.67,25.30")

(***************************************************************************)
(* Contacts as the Bitrix24 REST API returns them (crm.contact.list with   *)
(* the select[] of get_contacts).  RemoteProfiles are the values a Bitrix  *)
(* user can give the three custom fields.                                  *)
(***************************************************************************)
RemoteProfiles ==
    { \* detailed values, to be reduced by the masking rules
      [UF_CRM_1565773321 |-> CatholicRomanRite,
       UF_CRM_1565773389 |-> json_dumps(PyDict([baptism |-> FullDate])),
       UF_CRM_1565773407 |-> json_dumps(PyDict([cemetery |-> Cemetery, gps |-> Gps]))],
      \* values on which the masking lambdas raise
      [UF_CRM_1565773321 |-> PyInt(7),
       UF_CRM_1565773389 |-> json_dumps(PyDict([baptism |-> PyNone])),
       UF_CRM_1565773407 |-> json_dumps(Cemetery)],
      \* a custom field that is not JSON
      [UF_CRM_1565773321 |-> Catholic,
       UF_CRM_1565773389 |-> BadJson,
       UF_CRM_1565773407 |-> json_dumps(PyNone)] }

RemoteContact(id, profile, modified) ==
    [ID |-> id, NAME |-> Jonas, LAST_NAME |-> Jonaitis,
     PHONE |-> <<[VALUE |-> Phone]>>, EMAIL |-> <<[VALUE |-> Email]>>,
     UF_CRM_1565773321 |-> profile.UF_CRM_1565773321,
     UF_CRM_1565773389 |-> profile.UF_CRM_1565773389,
     UF_CRM_1565773407 |-> profile.UF_CRM_1565773407,
     DATE_MODIFY |-> modified]

Absent == [k |-> "absent"]

\* contact.get('PHONE', [{}])[0].get('VALUE', '') if contact.get('PHONE') else ''
FirstValue(list) == IF Len(list) > 0 THEN list[1].VALUE ELSE PyStr(<<>>)

\* The keys of standard_contact built by _mask_contact_data.
StandardKeys ==
    {"id", "first_name", "last_name", "phone", "email",
     "religion", "sacrament_dates", "burial_location"}

standard_contact(contact) ==
    [f \in StandardKeys |->
        CASE f = "id"              -> PyInt(contact.ID)
          [] f = "first_name"      -> contact.NAME
          [] f = "last_name"       -> contact.LAST_NAME
          [] f = "phone"           -> FirstValue(contact.PHONE)
          [] f = "email"           -> FirstValue(contact.EMAIL)
          [] f = "religion"        -> contact.UF_CRM_1565773321
          [] f = "sacrament_dates" -> json_loads(contact.UF_CRM_1565773389)
          [] f = "burial_location" -> json_loads(contact.UF_CRM_1565773407)]

\* json.loads raises on a custom field that is not JSON.
MaskContactThrows(contact) ==
    json_loads_throws(contact.UF_CRM_1565773389)
        \/ json_loads_throws(contact.UF_CRM_1565773407)

\* Bitrix24Client._mask_contact_data
mask_contact_data(contact, country_code) ==
    mask_special_category_data(standard_contact(contact), country_code)

(***************************************************************************)
(* State                                                                   *)
(***************************************************************************)
VARIABLES
    now,            \* the clock read by timezone.now() and by the remote
    settings,       \* django settings: CLOUD_ENV, BITRIX24_DOMAINS
    consents,       \* GDPRConsent rows granting a purpose (country, purpose,
                    \* granted within the last 365 days)
    erasure,        \* GDPRConsent erasure flags by bitrix_contact_id
    local,          \* Contact table, by primary key
    remote,         \* the Bitrix24 instance of each country, by contact ID
    snapshots,      \* SpecialCategoryData rows
    syncRecords,    \* BitrixSyncRecord rows, in order of creation
    processing_log, \* DataProcessingRecord rows, in order of creation
    transmitted,    \* the crm.contact.update requests the remote received
    pass,           \* the frame of each running sync_church_contacts call
    callers,        \* the workers that run the scheduled sync task
    quiet,          \* history: a pass returned its stats and nobody changed
                    \* anything since
    runs,           \* calls of sync_church_contacts made so far
    edits,          \* changes made by users so far
    unit            \* a call of one function on its own: its arguments,
                    \* its position and its local variables

vars == <<now, settings, consents, erasure, local, remote, snapshots, syncRecords,
          processing_log, transmitted, pass, callers, quiet, runs, edits, unit>>

\* The countries of the deployment; settings.BITRIX24_DOMAINS tells which of
\* them have a Bitrix24 instance whose domain ends with the country code.
Countries == {"lt", "lv"}
\* Primary keys of the Contact table; contact 3 was never synced.
Pks == {1, 2, 3}
NoBitrixId == 0

\* settings.GDPR_PROCESSING_PURPOSES['BITRIX_SYNC_<CC>']
SyncPurpose(country_code) == "BITRIX_SYNC"
ErasurePurpose == "ARTICLE_17_ERASURE"
\* The country every decorated method hands to gdpr_compliance_check.
DecoratorCountry == "country_code_param"

(***************************************************************************)
(* Local contacts                                                          *)
(***************************************************************************)
LocalProfiles ==
    { \* details typed in by a parish user
      [religion |-> CatholicRomanRite,
       sacrament_records |-> PyDict([baptism |-> FullDate]),
       burial_location |-> PyDict([cemetery |-> Cemetery, gps |-> Gps])],
      \* a living person: no burial location
      [religion |-> Catholic,
       sacrament_records |-> EmptyDict,
       burial_location |-> PyNone] }

\* A contact as an earlier sync stored it (already reduced by the rules).
SyncedProfile ==
    [religion |-> Catholic,
     sacrament_records |-> PyDict([baptism |-> YearOnly]),
     burial_location |-> PyDict([cemetery |-> Cemetery, section |-> PyNone])]

ContactRow(pk, bitrix_id, country_code, profile, created, updated) ==
    [id |-> pk, bitrix_id |-> bitrix_id, country_code |-> country_code, church_id |-> 1,
     first_name |-> Jonas, last_name |-> Jonaitis, phone |-> Phone, email |-> Email,
     religion |-> profile.religion,
     sacrament_records |-> profile.sacrament_records,
     burial_location |-> profile.burial_location,
     erasure_processed |-> FALSE, created_at |-> created, updated_at |-> updated]

NoRow == [k |-> "norow"]

Stats0 == [created |-> 0, updated |-> 0, deleted |-> 0, errors |-> 0]

IdleFrame ==
    [pc |-> "idle", country_code |-> "lt", last_sync |-> NoTime, started_at |-> NoTime,
     raw |-> <<>>, bitrix_contacts |-> <<>>, i |-> 1, stats |-> Stats0,
     local_changes |-> <<>>, j |-> 1, snapshot |-> PyNone,
     \* history of the call: update_contact calls made, contacts whose push
     \* raised BitrixAPIError, those of the caller's previous call, whether
     \* the call started right after a quiet return, why it raised, the
     \* contacts of the remote whose erasure was pending when it started
     attempted |-> 0, failed |-> {}, owed |-> {}, idem |-> FALSE, cause |-> "none",
     pending |-> {}]

\* No function is being called on its own.
NoCall == [op |-> "none"]

Configurations ==
    { [CLOUD_ENV |-> "self-hosted", consents |-> {"BITRIX_SYNC", "ARTICLE_17_ERASURE"},
       country_code |-> DecoratorCountry, fresh |-> TRUE],
      [CLOUD_ENV |-> "self-hosted", consents |-> {"BITRIX_SYNC"},
       country_code |-> DecoratorCountry, fresh |-> TRUE],
      [CLOUD_ENV |-> "self-hosted", consents |-> {},
       country_code |-> DecoratorCountry, fresh |-> TRUE],
      [CLOUD_ENV |-> "GKE", consents |-> {"BITRIX_SYNC", "ARTICLE_17_ERASURE"},
       country_code |-> DecoratorCountry, fresh |-> TRUE],
      \* the consents are recorded under the country of the partition
      [CLOUD_ENV |-> "self-hosted", consents |-> {"BITRIX_SYNC", "ARTICLE_17_ERASURE"},
       country_code |-> "lt", fresh |-> TRUE],
      \* the consents were granted more than 365 days ago
      [CLOUD_ENV |-> "self-hosted", consents |-> {"BITRIX_SYNC", "ARTICLE_17_ERASURE"},
       country_code |-> DecoratorCountry, fresh |-> FALSE] }

\* The GDPRConsent rows of a configuration.
ConsentRows(c) ==
    {[country_code |-> c.country_code, processing_purpose |-> q, fresh |-> c.fresh] :
        q \in c.consents}

InitData ==
    /\ now = 0
    /\ \E c \in Configurations :
          /\ settings = [CLOUD_ENV |-> c.CLOUD_ENV, BITRIX24_DOMAINS |-> {"lt"}]
          /\ consents = ConsentRows(c)
    /\ erasure = [id \in Ids |-> "none"]
    /\ local = [pk \in Pks |->
                  CASE pk = 1 -> ContactRow(1, 1, "lt", SyncedProfile, 0, 0)
                    [] pk = 2 -> ContactRow(2, 2, "lt", SyncedProfile, 0, 0)
                    [] pk = 3 -> ContactRow(3, NoBitrixId, "lt", SyncedProfile, 0, 0)]
    /\ remote = [c \in Countries |-> [id \in Ids |->
                    RemoteContact(id, CHOOSE r \in RemoteProfiles :
                                          r.UF_CRM_1565773321 = CatholicRomanRite, 0)]]
    /\ snapshots = {}
    /\ syncRecords = <<>>
    /\ processing_log = <<>>
    /\ transmitted = {}
    /\ pass = [p \in Passes |-> IdleFrame]
    /\ quiet = FALSE
    /\ runs = 0
    /\ edits = 0

\* One worker runs the scheduled task: a call starts after the last returned.
Init == InitData /\ callers = {1} /\ unit = NoCall

\* Two workers run it: nothing in sync_church_contacts keeps their calls apart.
InitOverlap == InitData /\ callers = Passes /\ unit = NoCall

(***************************************************************************)
(* Helpers                                                                 *)
(***************************************************************************)
RECURSIVE SortedSeq(_)
\* The elements of a finite set of integers in increasing order.
SortedSeq(set) ==
    IF set = {} THEN <<>>
    ELSE LET m == CHOOSE x \in set : \A y \in set : x <= y
         IN  <<m>> \o SortedSeq(set \ {m})

Last(seq) == seq[Len(seq)]

\* The next reading of the clock: no two timestamped writes share a reading.
Stamp == now + 1

SetFrame(p, f) == pass' = [pass EXCEPT ![p] = f]

Bump(stats, key) == [stats EXCEPT ![key] = @ + 1]

(***************************************************************************)
(* Bitrix24Client._make_request: the request is sent; on a failure it is   *)
(* sent again while retry_count < MAX_RETRIES, after a sleep of            *)
(* RETRY_DELAY * (retry_count + 1); then BitrixAPIError is raised.         *)
(* `failing` is the number of requests in a row the network or the remote  *)
(* fails from now on.  The result tells whether the call raised and how    *)
(* many requests it sent.                                                  *)
(***************************************************************************)
RECURSIVE make_request(_, _)
make_request(failing, retry_count) ==
    IF failing = 0
    THEN [raised |-> FALSE, requests |-> retry_count + 1]
    ELSE IF retry_count < MAX_RETRIES
         THEN make_request(failing - 1, retry_count + 1)
         ELSE [raised |-> TRUE, requests |-> retry_count + 1]

\* What the network can do to one call: fail its first n requests.
Failing == 0..(MAX_RETRIES + 1)

(***************************************************************************)
(* gdpr_compliance_check: the wrapper around get_contacts, update_contact  *)
(* and delete_contact.  Every caller of this module passes the             *)
(* processing_purpose keyword and none passes requires_consent.            *)
(***************************************************************************)
gdpr_compliance_check(country_code, processing_purpose) ==
    IF settings.CLOUD_ENV = "GKE" /\ country_code # "global"
    THEN "DataSovereigntyViolation"
    ELSE IF ~\E c \in consents : /\ c.country_code = country_code
                                 /\ c.processing_purpose = processing_purpose
                                 \* granted_at >= now - 365 days
                                 /\ c.fresh
         THEN "GDPRComplianceError"
         ELSE "ok"

(***************************************************************************)
(* BitrixSyncRecord                                                        *)
(***************************************************************************)
SyncRecord(country_code, status, timestamp) ==
    [entity_type |-> "church_contact", country_code |-> country_code,
     status |-> status, timestamp |-> timestamp]

\* A pass that ends normally records a failure.
SuccessStatusWrong == "failure"
\* BitrixSyncRecord.objects.create(..., status='success', stats=stats)
SuccessStatus == "success"

\* The critical-failure handler records a success.
FailureStatusWrong == "success"
\* BitrixSyncRecord.objects.create(..., status='failure', error_message=...)
FailureStatus == "failure"

RECURSIVE LastSuccess(_, _)
LastSuccess(records, country_code) ==
    IF records = <<>> THEN NoTime
    ELSE IF /\ Last(records).status = "success"
            /\ Last(records).country_code = country_code
            /\ Last(records).entity_type = "church_contact"
         THEN Last(records).timestamp
         ELSE LastSuccess(SubSeq(records, 1, Len(records) - 1), country_code)

\* BitrixSyncRecord.get_last_sync('church_contact', country_code): the time of
\* the latest successful sync of the country, None when there is none.
get_last_sync(country_code) == LastSuccess(syncRecords, country_code)

(***************************************************************************)
(* Bitrix24Client.get_contacts                                             *)
(***************************************************************************)
\* filter[>DATE_MODIFY] = last_sync, only `if last_sync`
ModifiedSince(country_code, last_sync) ==
    {id \in Ids : /\ remote[country_code][id] # Absent
                  /\ (last_sync # NoTime =>
                        remote[country_code][id].DATE_MODIFY > last_sync)}

ListResult(country_code, last_sync) ==
    LET ids == SortedSeq(ModifiedSince(country_code, last_sync))
    IN  [n \in 1..Len(ids) |-> remote[country_code][ids[n]]]

(***************************************************************************)
(* Bitrix24Client.update_contact                                           *)
(***************************************************************************)
prohibited_fields == {"confession_records", "exact_burial_coordinates"}

\* No record is held back.
HasProhibitedNone(contact_data) == FALSE
\* any(field in contact_data for field in prohibited_fields)
HasProhibited(contact_data) == DOMAIN contact_data \cap prohibited_fields # {}

\* The body raises: a prohibited key, or .items()/.get()/v[:4] on a value
\* that has none.
UpdateRaises(contact_data) ==
    \/ HasProhibited(contact_data)
    \/ /\ "sacrament_dates" \in DOMAIN contact_data
       /\ \/ contact_data["sacrament_dates"].k # "dict"
          \/ \E key \in DOMAIN contact_data["sacrament_dates"].v :
                contact_data["sacrament_dates"].v[key].k # "str"
    \/ /\ "burial_location" \in DOMAIN contact_data
       /\ contact_data["burial_location"].k # "dict"

\* 'UF_CRM_1565773321': contact_data.get('religion')
PushedReligion(religion) == religion

bitrix_data(contact_id, contact_data) ==
    [ID |-> contact_id,
     NAME |-> contact_data["first_name"],
     LAST_NAME |-> contact_data["last_name"],
     PHONE |-> <<[VALUE |-> contact_data["phone"]]>>,
     EMAIL |-> <<[VALUE |-> contact_data["email"]]>>,
     UF_CRM_1565773321 |-> PushedReligion(contact_data["religion"]),
     UF_CRM_1565773389 |->
        json_dumps(PyDict([key \in DOMAIN contact_data["sacrament_dates"].v |->
            PyStr(Prefix(contact_data["sacrament_dates"].v[key].v, 4))])),
     UF_CRM_1565773407 |->
        json_dumps(PyDict([cemetery |-> DictGet(contact_data["burial_location"], "cemetery"),
                           section  |-> DictGet(contact_data["burial_location"], "section")]))]

\* crm.contact.update as the remote applies it.
RemoteUpdated(contact, fields, modified) ==
    [contact EXCEPT !.NAME = fields.NAME, !.LAST_NAME = fields.LAST_NAME,
                    !.PHONE = fields.PHONE, !.EMAIL = fields.EMAIL,
                    !.UF_CRM_1565773321 = fields.UF_CRM_1565773321,
                    !.UF_CRM_1565773389 = fields.UF_CRM_1565773389,
                    !.UF_CRM_1565773407 = fields.UF_CRM_1565773407,
                    !.DATE_MODIFY = modified]

(***************************************************************************)
(* BitrixSyncService helpers                                               *)
(***************************************************************************)
\* _is_erasure_requested: erasure_requested=True, erasure_processed=False
is_erasure_requested(bitrix_id) == erasure[bitrix_id] = "requested"

\* Step 3 of _process_erasure: Contact.objects.filter(bitrix_id=...).update(...)
\* The rows are flagged as processed and keep their identifying data.
AnonymizedFlagOnly(row) == [row EXCEPT !.erasure_processed = TRUE]

Anonymized(row) ==
    [row EXCEPT !.first_name = REDACTED, !.last_name = REDACTED,
                !.phone = PyNone, !.email = PyNone, !.erasure_processed = TRUE]

ChangeKeys ==
    {"bitrix_id", "first_name", "last_name", "phone", "email", "religion",
     "sacrament_dates", "burial_location", "church_id"}

ChangeDict(c) ==
    [f \in ChangeKeys |->
        CASE f = "bitrix_id"       -> PyInt(c.bitrix_id)
          [] f = "first_name"      -> c.first_name
          [] f = "last_name"       -> c.last_name
          [] f = "phone"           -> c.phone
          [] f = "email"           -> c.email
          [] f = "religion"        -> c.religion
          [] f = "sacrament_dates" -> c.sacrament_records
          [] f = "burial_location" -> c.burial_location
          [] f = "church_id"       -> PyInt(c.church_id)]

\* _get_local_changes(since)
get_local_changes(country_code, since) ==
    LET pks == SortedSeq({pk \in Pks :
                 /\ local[pk] # NoRow
                 /\ local[pk].country_code = country_code
                 /\ (since # NoTime =>
                        \/ local[pk].created_at >= since
                        \/ local[pk].updated_at >= since
                        \/ (local[pk].erasure_processed /\ local[pk].updated_at >= since))
                 /\ local[pk].bitrix_id # NoBitrixId})
    IN  [n \in 1..Len(pks) |-> ChangeDict(local[pks[n]])]

(***************************************************************************)
(* Users of the two systems and data subjects                              *)
(***************************************************************************)
\* History: somebody other than a sync pass changed something.
Disturb ==
    /\ quiet' = FALSE
    /\ pass' = [p \in Passes |-> [pass[p] EXCEPT !.idem = FALSE]]

\* A local user edits a synced contact (Contact.save(): updated_at = now).
LocalEdit(pk, profile) ==
    /\ edits < MaxEdits
    /\ local[pk] # NoRow /\ local[pk].bitrix_id # NoBitrixId
    /\ local' = [local EXCEPT ![pk] =
                    [@ EXCEPT !.religion = profile.religion,
                              !.sacrament_records = profile.sacrament_records,
                              !.burial_location = profile.burial_location,
                              !.updated_at = Stamp]]
    /\ now' = Stamp
    /\ edits' = edits + 1
    /\ UNCHANGED <<settings, consents, erasure, remote, snapshots, syncRecords,
                   processing_log, transmitted, callers, unit, runs>>
    /\ Disturb

\* A Bitrix24 user creates or edits a contact (DATE_MODIFY = now).
RemoteEdit(country_code, id, profile) ==
    /\ edits < MaxEdits
    /\ country_code \in settings.BITRIX24_DOMAINS
    /\ remote' = [remote EXCEPT ![country_code][id] = RemoteContact(id, profile, Stamp)]
    /\ now' = Stamp
    /\ edits' = edits + 1
    /\ UNCHANGED <<settings, consents, erasure, local, snapshots, syncRecords,
                   processing_log, transmitted, callers, unit, runs>>
    /\ Disturb

\* A data subject asks for erasure (GDPRConsent.erasure_requested = True).
RequestErasure(id) ==
    /\ edits < MaxEdits
    /\ erasure[id] = "none"
    /\ erasure' = [erasure EXCEPT ![id] = "requested"]
    /\ edits' = edits + 1
    /\ UNCHANGED <<now, settings, consents, local, remote, snapshots, syncRecords,
                   processing_log, transmitted, callers, unit, runs>>
    /\ Disturb

(***************************************************************************)
(* sync_church_contacts                                                    *)
(***************************************************************************)
Resting == {"idle", "done", "raised"}

\* The call: stats = {...}; last_sync = BitrixSyncRecord.get_last_sync(...).
\* No lock is taken: a call starts whatever the other callers are doing.
StartPass(p, country_code) ==
    /\ runs < MaxRuns
    \* Bitrix24Client(country_code): the domain is configured and matches
    /\ country_code \in settings.BITRIX24_DOMAINS
    /\ p \in callers
    /\ pass[p].pc \in Resting
    \* callers are interchangeable: the second one stands for a call made
    \* while the first one is running
    /\ p = 1 \/ pass[1].pc \notin Resting
    /\ SetFrame(p, [IdleFrame EXCEPT !.pc = "pull", !.country_code = country_code,
                                     !.last_sync = get_last_sync(country_code),
                                     !.started_at = now,
                                     !.owed = pass[p].failed,
                                     !.idem = quiet,
                                     !.pending =
                                        {id \in Ids : /\ is_erasure_requested(id)
                                                      /\ remote[country_code][id] # Absent}])
    /\ quiet' = FALSE
    /\ runs' = runs + 1
    /\ UNCHANGED <<now, settings, consents, erasure, local, remote, snapshots,
                   syncRecords, processing_log, transmitted, callers, unit, edits>>

\* The record carries the time at which the call started.
RecordTimestampStart(p) == pass[p].started_at
\* BitrixSyncRecord.objects.create passes no time: the row is stamped when it
\* is created, at the end of the call.
RecordTimestamp(p) == Stamp

\* except Exception: BitrixSyncRecord.objects.create(status='failure'); raise
Abort(p, cause) ==
    /\ syncRecords' = Append(syncRecords,
                             SyncRecord(pass[p].country_code, FailureStatus, RecordTimestamp(p)))
    /\ now' = Stamp
    /\ quiet' = FALSE
    /\ SetFrame(p, [pass[p] EXCEPT !.pc = "raised", !.cause = cause])

\* get_contacts is refused by gdpr_compliance_check.
PullRefused(p) ==
    /\ pass[p].pc = "pull"
    /\ gdpr_compliance_check(DecoratorCountry, SyncPurpose(pass[p].country_code)) # "ok"
    /\ Abort(p, gdpr_compliance_check(DecoratorCountry, SyncPurpose(pass[p].country_code)))
    /\ UNCHANGED <<settings, consents, erasure, local, remote, snapshots,
                   processing_log, transmitted, callers, unit, runs, edits>>

\* _make_request('GET', 'crm.contact.list') raises BitrixAPIError.
PullFails(p) ==
    /\ pass[p].pc = "pull"
    /\ gdpr_compliance_check(DecoratorCountry, SyncPurpose(pass[p].country_code)) = "ok"
    /\ \E n \in Failing : make_request(n, 0).raised
    /\ Abort(p, "BitrixAPIError")
    /\ UNCHANGED <<settings, consents, erasure, local, remote, snapshots,
                   processing_log, transmitted, callers, unit, runs, edits>>

\* The list request is answered; every contact goes through
\* _mask_contact_data, where json.loads may raise.
PullResponds(p) ==
    /\ pass[p].pc = "pull"
    /\ gdpr_compliance_check(DecoratorCountry, SyncPurpose(pass[p].country_code)) = "ok"
    /\ \E n \in Failing : ~make_request(n, 0).raised
    /\ LET result == ListResult(pass[p].country_code, pass[p].last_sync)
       IN  IF \E n \in 1..Len(result) : MaskContactThrows(result[n])
           THEN Abort(p, "JSONDecodeError")
           ELSE /\ SetFrame(p, [pass[p] EXCEPT
                      !.pc = "contacts", !.i = 1, !.raw = result,
                      !.bitrix_contacts =
                          [n \in 1..Len(result) |->
                              mask_contact_data(result[n], pass[p].country_code)]])
                /\ UNCHANGED <<now, syncRecords, quiet>>
    /\ UNCHANGED <<settings, consents, erasure, local, remote, snapshots,
                   processing_log, transmitted, callers, unit, runs, edits>>

(***************************************************************************)
(* Step 2: the loop over bitrix_contacts, one transaction.atomic() each    *)
(***************************************************************************)
Current(p) == pass[p].bitrix_contacts[pass[p].i]
CurrentId(p) == Current(p)["id"].v

InContacts(p) == pass[p].pc = "contacts" /\ pass[p].i <= Len(pass[p].bitrix_contacts)

\* The rows keep what the failed block wrote.
RollBackKeeps(written, before) == written
\* with transaction.atomic(): an exception leaving the block undoes what the
\* block wrote.
RollBack(written, before) == before

\* _process_erasure, step 1: the requests of the contact are marked processed.
MarkedProcessed(bitrix_id) == [erasure EXCEPT ![bitrix_id] = "processed"]

\* except Exception: stats['errors'] += 1, and the loop goes on.
ContactFailed(p) ==
    SetFrame(p, [pass[p] EXCEPT !.pc = "contacts", !.i = @ + 1, !.snapshot = PyNone,
                                !.stats = Bump(@, "errors")])

\* Contact.objects.update_or_create(bitrix_id=..., defaults=...)
RowOf(bitrix_id) == {pk \in Pks : local[pk] # NoRow /\ local[pk].bitrix_id = bitrix_id}
FreePk == CHOOSE pk \in Pks : local[pk] = NoRow
Upserted(p, contact) ==
    LET profile == [religion |-> contact["religion"],
                    sacrament_records |-> contact["sacrament_dates"],
                    burial_location |-> contact["burial_location"]]
    IN  IF RowOf(contact["id"].v) # {}
        THEN LET pk == CHOOSE k \in RowOf(contact["id"].v) : TRUE
             IN  [local EXCEPT ![pk] =
                    [@ EXCEPT !.first_name = contact["first_name"],
                              !.last_name = contact["last_name"],
                              !.phone = contact["phone"], !.email = contact["email"],
                              !.church_id = contact["church_id"].v,
                              !.religion = profile.religion,
                              !.sacrament_records = profile.sacrament_records,
                              !.burial_location = profile.burial_location,
                              !.updated_at = Stamp]]
        ELSE [local EXCEPT ![FreePk] =
                 [ContactRow(FreePk, contact["id"].v, pass[p].country_code, profile,
                             Stamp, Stamp)
                  EXCEPT !.first_name = contact["first_name"],
                         !.last_name = contact["last_name"],
                         !.phone = contact["phone"], !.email = contact["email"],
                         !.church_id = contact["church_id"].v]]

\* create_processing_record
ProcessingRecord(entity_id, operation, country_code, processing_purpose, timestamp) ==
    [entity_type |-> "contact", entity_id |-> entity_id, operation |-> operation,
     country_code |-> country_code, processing_purpose |-> processing_purpose,
     timestamp |-> timestamp]

\* The contact is not awaiting erasure: Church.objects.get(bitrix_id=
\* contact['church_id']) and the upsert.  standard_contact has no 'church_id'
\* key, so the lookup raises KeyError and the contact is counted as an error.
UpsertContact(p) ==
    /\ InContacts(p)
    /\ ~is_erasure_requested(CurrentId(p))
    /\ IF "church_id" \notin DOMAIN Current(p)
       THEN /\ ContactFailed(p)
            /\ UNCHANGED <<now, local, processing_log>>
       ELSE /\ local' = Upserted(p, Current(p))
            /\ processing_log' = Append(processing_log,
                  ProcessingRecord(
                      IF RowOf(CurrentId(p)) # {}
                      THEN CHOOSE k \in RowOf(CurrentId(p)) : TRUE ELSE FreePk,
                      "sync_from_bitrix", pass[p].country_code,
                      SyncPurpose(pass[p].country_code), Stamp))
            /\ now' = Stamp
            /\ SetFrame(p, [pass[p] EXCEPT !.i = @ + 1,
                  !.stats = Bump(@, IF RowOf(CurrentId(p)) = {} THEN "created"
                                    ELSE "updated")])
    /\ UNCHANGED <<settings, consents, erasure, remote, snapshots, syncRecords,
                   transmitted, callers, unit, quiet, runs, edits>>

\* _process_erasure: delete_contact is refused by gdpr_compliance_check; the
\* transaction rolls the consent update back.
ErasureRefused(p) ==
    /\ InContacts(p)
    /\ is_erasure_requested(CurrentId(p))
    /\ gdpr_compliance_check(DecoratorCountry, ErasurePurpose) # "ok"
    /\ ContactFailed(p)
    /\ erasure' = RollBack(MarkedProcessed(CurrentId(p)), erasure)
    /\ UNCHANGED <<now, settings, consents, local, remote, snapshots,
                   syncRecords, processing_log, transmitted, callers, unit, quiet, runs, edits>>

\* What crm.contact.get answers for a contact.
GetResponse(country_code, id) == [result |-> remote[country_code][id]]

\* _process_erasure reaches the body of delete_contact: the snapshot request.
\* When it raises (the contact is gone, or every attempt fails) the exception
\* is logged and the deletion goes on without a snapshot.
ErasureSnapshot(p) ==
    /\ InContacts(p)
    /\ is_erasure_requested(CurrentId(p))
    /\ gdpr_compliance_check(DecoratorCountry, ErasurePurpose) = "ok"
    /\ \E n \in Failing :
          SetFrame(p, [pass[p] EXCEPT !.pc = "delete",
              !.snapshot =
                  IF \/ make_request(n, 0).raised
                     \/ remote[pass[p].country_code][CurrentId(p)] = Absent
                  THEN PyNone
                  ELSE [country_code |-> pass[p].country_code,
                        entity_id |-> CurrentId(p),
                        data_snapshot |->
                            mask_special_category_data(
                                GetResponse(pass[p].country_code, CurrentId(p)),
                                pass[p].country_code)]])
    /\ UNCHANGED <<now, settings, consents, erasure, local, remote, snapshots,
                   syncRecords, processing_log, transmitted, callers, unit, quiet, runs, edits>>

\* The erased contact is counted as updated.
ErasedCountedAsUpdated(stats) == Bump(stats, "updated")
\* stats['deleted'] += 1
ErasedCounted(stats) == Bump(stats, "deleted")

\* _make_request('POST', 'crm.contact.delete') is answered; the transaction
\* commits the consent update, the snapshot and the anonymisation.
DeleteResponds(p) ==
    /\ pass[p].pc = "delete"
    /\ remote[pass[p].country_code][CurrentId(p)] # Absent
    /\ \E n \in Failing : ~make_request(n, 0).raised
    /\ remote' = [remote EXCEPT ![pass[p].country_code][CurrentId(p)] = Absent]
    /\ erasure' = MarkedProcessed(CurrentId(p))
    /\ local' = [pk \in Pks |->
                    IF local[pk] # NoRow /\ local[pk].bitrix_id = CurrentId(p)
                    THEN Anonymized(local[pk]) ELSE local[pk]]
    /\ snapshots' = IF pass[p].snapshot = PyNone THEN snapshots
                    ELSE snapshots \cup {pass[p].snapshot}
    /\ SetFrame(p, [pass[p] EXCEPT !.pc = "contacts", !.i = @ + 1,
                                   !.snapshot = PyNone,
                                   !.stats = ErasedCounted(@)])
    /\ UNCHANGED <<now, settings, consents, syncRecords, processing_log, transmitted,
                   callers, unit, quiet, runs, edits>>

\* The delete request raises BitrixAPIError (every attempt fails, or the
\* contact is gone): the transaction rolls back, the contact is an error.
DeleteFails(p) ==
    /\ pass[p].pc = "delete"
    /\ \/ remote[pass[p].country_code][CurrentId(p)] = Absent
       \/ \E n \in Failing : make_request(n, 0).raised
    /\ ContactFailed(p)
    /\ erasure' = RollBack(MarkedProcessed(CurrentId(p)), erasure)
    /\ UNCHANGED <<now, settings, consents, local, remote, snapshots,
                   syncRecords, processing_log, transmitted, callers, unit, quiet, runs, edits>>

(***************************************************************************)
(* Step 3: push the local changes                                          *)
(***************************************************************************)
\* local_changes = self._get_local_changes(last_sync)
GetLocalChanges(p) ==
    /\ pass[p].pc = "contacts" /\ pass[p].i > Len(pass[p].bitrix_contacts)
    /\ SetFrame(p, [pass[p] EXCEPT
          !.pc = "push", !.j = 1,
          \* the pulled contacts are not read again
          !.raw = <<>>, !.bitrix_contacts = <<>>, !.i = 1,
          !.local_changes = get_local_changes(pass[p].country_code, pass[p].last_sync)])
    /\ UNCHANGED <<now, settings, consents, erasure, local, remote, snapshots,
                   syncRecords, processing_log, transmitted, callers, unit, quiet, runs, edits>>

Change(p) == pass[p].local_changes[pass[p].j]

InPush(p) == pass[p].pc = "push" /\ pass[p].j <= Len(pass[p].local_changes)

\* update_contact raises before any request is made.
PushRaises(p) ==
    \/ gdpr_compliance_check(DecoratorCountry, SyncPurpose(pass[p].country_code)) # "ok"
    \/ UpdateRaises(Change(p))

\* The first failed push ends the loop.
PushFailedBreaks(p, exhausted) ==
    /\ SetFrame(p, [pass[p] EXCEPT !.j = Len(pass[p].local_changes) + 1,
                                   !.attempted = @ + 1,
                                   !.failed = @ \cup exhausted,
                                   !.stats = Bump(@, "errors")])
\* except Exception: stats['errors'] += 1, and the loop goes on.
PushFailed(p, exhausted) ==
    /\ SetFrame(p, [pass[p] EXCEPT !.j = @ + 1,
                                   !.attempted = @ + 1,
                                   !.failed = @ \cup exhausted,
                                   !.stats = Bump(@, "errors")])

PushRefused(p) ==
    /\ InPush(p)
    /\ PushRaises(p)
    /\ PushFailed(p, {})
    /\ UNCHANGED <<now, settings, consents, erasure, local, remote, snapshots,
                   syncRecords, processing_log, transmitted, callers, unit, quiet, runs, edits>>

\* _make_request('POST', 'crm.contact.update') raises BitrixAPIError: every
\* attempt fails, or the remote has no such contact.
PushFails(p) ==
    /\ InPush(p)
    /\ ~PushRaises(p)
    /\ \/ remote[pass[p].country_code][Change(p)["bitrix_id"].v] = Absent
       \/ \E n \in Failing : make_request(n, 0).raised
    /\ PushFailed(p, {Change(p)["bitrix_id"].v})
    /\ UNCHANGED <<now, settings, consents, erasure, local, remote, snapshots,
                   syncRecords, processing_log, transmitted, callers, unit, quiet, runs, edits>>

\* The update request is answered: the remote stores the fields it was sent.
PushResponds(p) ==
    /\ InPush(p)
    /\ ~PushRaises(p)
    /\ \E n \in Failing : ~make_request(n, 0).raised
    /\ LET id == Change(p)["bitrix_id"].v
           fields == bitrix_data(id, Change(p))
       IN  /\ remote[pass[p].country_code][id] # Absent
           /\ remote' = [remote EXCEPT ![pass[p].country_code][id] =
                            RemoteUpdated(@, fields, Stamp)]
           /\ transmitted' = transmitted \cup {[contact |-> Change(p), fields |-> fields]}
    /\ now' = Stamp
    /\ SetFrame(p, [pass[p] EXCEPT !.j = @ + 1,
                                   !.attempted = @ + 1,
                                   !.stats = Bump(@, "updated")])
    /\ UNCHANGED <<settings, consents, erasure, local, snapshots, syncRecords,
                   processing_log, callers, unit, quiet, runs, edits>>

(***************************************************************************)
(* Step 4: record the sync and return the stats                            *)
(***************************************************************************)
RecordSuccess(p) ==
    /\ pass[p].pc = "push" /\ pass[p].j > Len(pass[p].local_changes)
    /\ syncRecords' = Append(syncRecords,
                             SyncRecord(pass[p].country_code, SuccessStatus, RecordTimestamp(p)))
    /\ now' = Stamp
    /\ quiet' = TRUE
    /\ SetFrame(p, [pass[p] EXCEPT !.pc = "done"])
    /\ UNCHANGED <<settings, consents, erasure, local, remote, snapshots,
                   processing_log, transmitted, callers, unit, runs, edits>>

Next ==
    \/ \E pk \in Changing, profile \in LocalProfiles : LocalEdit(pk, profile)
    \/ \E c \in Countries, id \in Changing, profile \in RemoteProfiles :
          RemoteEdit(c, id, profile)
    \/ \E id \in Changing : RequestErasure(id)
    \/ \E p \in Passes, c \in Countries : StartPass(p, c)
    \/ \E p \in Passes : PullRefused(p)
    \/ \E p \in Passes : PullFails(p)
    \/ \E p \in Passes : PullResponds(p)
    \/ \E p \in Passes : UpsertContact(p)
    \/ \E p \in Passes : ErasureRefused(p)
    \/ \E p \in Passes : ErasureSnapshot(p)
    \/ \E p \in Passes : DeleteResponds(p)
    \/ \E p \in Passes : DeleteFails(p)
    \/ \E p \in Passes : GetLocalChanges(p)
    \/ \E p \in Passes : PushRefused(p)
    \/ \E p \in Passes : PushFails(p)
    \/ \E p \in Passes : PushResponds(p)
    \/ \E p \in Passes : RecordSuccess(p)

Spec == Init /\ [][Next]_vars

SpecOverlap == InitOverlap /\ [][Next]_vars

(***************************************************************************)
(* Two partitions: Lithuania and Latvia each have a Bitrix24 instance, and *)
(* the instances number their contacts independently, so contact 1 of      *)
(* Latvia is another person than contact 1 of Lithuania.  Two workers run  *)
(* the passes.                                                             *)
(***************************************************************************)
InitPartitions ==
    /\ now = 0
    /\ \E c \in Configurations :
          /\ settings = [CLOUD_ENV |-> c.CLOUD_ENV, BITRIX24_DOMAINS |-> Countries]
          /\ consents = ConsentRows(c)
    /\ erasure = [id \in Ids |-> "none"]
    /\ local = [pk \in Pks |->
                  CASE pk = 1 -> ContactRow(1, 1, "lt", SyncedProfile, 0, 0)
                    [] pk = 2 -> ContactRow(2, 1, "lv", SyncedProfile, 0, 0)
                    [] pk = 3 -> ContactRow(3, NoBitrixId, "lt", SyncedProfile, 0, 0)]
    /\ remote = [c \in Countries |-> [id \in Ids |->
                    RemoteContact(id, CHOOSE r \in RemoteProfiles :
                                          r.UF_CRM_1565773321 = CatholicRomanRite, 0)]]
    /\ snapshots = {}
    /\ syncRecords = <<>>
    /\ processing_log = <<>>
    /\ transmitted = {}
    /\ pass = [p \in Passes |-> IdleFrame]
    /\ quiet = FALSE
    /\ runs = 0
    /\ edits = 0
    /\ callers = Passes
    /\ unit = NoCall

SpecPartitions == InitPartitions /\ [][Next]_vars

(***************************************************************************)
(* The deployment is moved while the service runs: settings.CLOUD_ENV,     *)
(* read by gdpr_compliance_check at every decorated call, becomes 'GKE'.   *)
(***************************************************************************)
Reconfigure ==
    /\ edits < MaxEdits
    /\ settings.CLOUD_ENV # "GKE"
    /\ settings' = [settings EXCEPT !.CLOUD_ENV = "GKE"]
    /\ edits' = edits + 1
    /\ UNCHANGED <<now, consents, erasure, local, remote, snapshots, syncRecords,
                   processing_log, transmitted, callers, unit, runs>>
    /\ Disturb

NextReconfigured ==
    \/ Next
    \/ Reconfigure

SpecReconfigured == Init /\ [][NextReconfigured]_vars

(***************************************************************************)
(* mask_special_category_data called on its own, statement by statement.   *)
(* `order` is the order in which special_fields.items() yields the fields. *)
(***************************************************************************)
Spouse == PyStr(<<"s","p","o","u","s","e">>)

\* The values a record can hold in each field.
FieldValues(field) ==
    CASE field = "first_name"         -> {Jonas}
      [] field = "religion"           -> {CatholicRomanRite, PyInt(7)}
      [] field = "sacrament_dates"    -> {PyDict([baptism |-> FullDate]),
                                          PyDict([baptism |-> PyNone])}
      [] field = "burial_location"    -> {PyDict([cemetery |-> Cemetery, gps |-> Gps]),
                                          PyNone}
      [] field = "next_of_kin"        ->
            {PyDict([name |-> Jonas, relationship |-> Spouse]),
             PyDict([name |-> Jonas, relationship |-> Spouse, phone |-> Phone])}
      [] field = "confession_records" -> {S("confession")}

\* The sets of keys of the records passed as `data`.
DataKeys ==
    { {"first_name", "religion", "sacrament_dates", "burial_location",
       "next_of_kin", "confession_records"},
      {"first_name", "religion", "confession_records"} }

MaskInputs ==
    UNION { {d \in [keys -> UNION {FieldValues(f) : f \in keys}] :
                \A f \in keys : d[f] \in FieldValues(f)} : keys \in DataKeys }

\* The country codes the function is called with.
MaskCountries == {"lt", "LT"}

\* The orders in which a set of fields can be iterated.
Orders(fields) ==
    {o \in [1..Cardinality(fields) -> fields] :
        \A a, b \in 1..Cardinality(fields) : a # b => o[a] # o[b]}

\* masked = data.copy()
MaskCall(data, country_code, order) ==
    [op |-> "mask", given |-> data, data |-> data, country_code |-> country_code,
     order |-> order, k |-> 1, masked |-> data, round |-> 1, first |-> PyNone]

\* One iteration of `for field, masker in special_fields.items()`.
MaskStep ==
    /\ unit.op = "mask"
    /\ unit.k <= Len(unit.order)
    /\ LET field == unit.order[unit.k]
       IN  unit' = [unit EXCEPT
              !.k = @ + 1,
              !.masked = IF field \in DOMAIN unit.masked /\ HasMasker(field)
                         THEN [unit.masked EXCEPT ![field] = MaskField(field, @)]
                         ELSE unit.masked]
    /\ UNCHANGED <<now, settings, consents, erasure, local, remote, snapshots,
                   syncRecords, processing_log, transmitted, pass, callers, quiet,
                   runs, edits>>

\* return masked
MaskReturn ==
    /\ unit.op = "mask"
    /\ unit.k > Len(unit.order)
    /\ unit' = [unit EXCEPT !.op = "masked"]
    /\ UNCHANGED <<now, settings, consents, erasure, local, remote, snapshots,
                   syncRecords, processing_log, transmitted, pass, callers, quiet,
                   runs, edits>>

\* The record the function returned is passed to it again, as when a
\* window is processed a second time.
MaskAgain ==
    /\ unit.op = "masked"
    /\ unit.round = 1
    /\ unit' = [MaskCall(unit.masked, unit.country_code, unit.order)
                   EXCEPT !.round = 2, !.first = unit.masked]
    /\ UNCHANGED <<now, settings, consents, erasure, local, remote, snapshots,
                   syncRecords, processing_log, transmitted, pass, callers, quiet,
                   runs, edits>>

(***************************************************************************)
(* Bitrix24Client._make_request called on its own, attempt by attempt.     *)
(* The network fails the first `failing` requests, or every request when   *)
(* `always` is set.  Delays are in tenths of a second.                     *)
(***************************************************************************)
\* The sleep is the same before every retry.
RetryDelayConstant(retry_count) == RETRY_DELAY
\* time.sleep(self.RETRY_DELAY * (retry_count + 1))
RetryDelay(retry_count) == RETRY_DELAY * (retry_count + 1)

\* What the network does to the requests of one call.
NetworkPlans ==
    {[failing |-> n, always |-> FALSE] : n \in 0..(MAX_RETRIES + 2)}
        \cup {[failing |-> 1, always |-> TRUE]}

RequestCall(plan) ==
    [op |-> "request", plan |-> plan, failing |-> plan.failing, retry_count |-> 0,
     requests |-> 0, slept |-> <<>>]

\* requests.request(...) and raise_for_status() succeed: return response.json()
RequestAnswered ==
    /\ unit.op = "request"
    /\ unit.failing = 0
    /\ unit' = [unit EXCEPT !.op = "returned", !.requests = @ + 1]
    /\ UNCHANGED <<now, settings, consents, erasure, local, remote, snapshots,
                   syncRecords, processing_log, transmitted, pass, callers, quiet,
                   runs, edits>>

\* RequestException with retry_count < MAX_RETRIES: sleep, then the call is
\* made again with retry_count + 1.
RequestRetried ==
    /\ unit.op = "request"
    /\ unit.failing > 0
    /\ unit.retry_count < MAX_RETRIES
    /\ unit' = [unit EXCEPT !.requests = @ + 1,
                            !.slept = Append(@, RetryDelay(unit.retry_count)),
                            !.retry_count = @ + 1,
                            !.failing = IF unit.plan.always THEN @ ELSE @ - 1]
    /\ UNCHANGED <<now, settings, consents, erasure, local, remote, snapshots,
                   syncRecords, processing_log, transmitted, pass, callers, quiet,
                   runs, edits>>

\* RequestException with retry_count = MAX_RETRIES: raise BitrixAPIError.
RequestGivesUp ==
    /\ unit.op = "request"
    /\ unit.failing > 0
    /\ unit.retry_count >= MAX_RETRIES
    /\ unit' = [unit EXCEPT !.op = "raised", !.requests = @ + 1]
    /\ UNCHANGED <<now, settings, consents, erasure, local, remote, snapshots,
                   syncRecords, processing_log, transmitted, pass, callers, quiet,
                   runs, edits>>

(***************************************************************************)
(* The methods of Bitrix24Client called on their own: the wrapper of       *)
(* gdpr_compliance_check, the checks at the head of the body, the          *)
(* requests.  `sent` lists the endpoints a request was sent to.            *)
(***************************************************************************)
\* The call passes no processing_purpose keyword.
NoPurpose == "none"

\* wrapper(*args, **kwargs) of gdpr_compliance_check
gdpr_wrapper(country_code, processing_purpose) ==
    IF settings.CLOUD_ENV = "GKE" /\ country_code # "global"
    THEN "DataSovereigntyViolation"
    ELSE IF processing_purpose = NoPurpose
         THEN "GDPRComplianceError"
         ELSE gdpr_compliance_check(country_code, processing_purpose)

\* The dictionaries handed to update_contact.
UpdateInputs ==
    LET plain == {ChangeDict(ContactRow(1, 1, "lt", profile, 0, 0)) :
                     profile \in LocalProfiles}
    IN  plain
          \cup {[f \in DOMAIN d \cup {x} |-> IF f = x THEN S("secret") ELSE d[f]] :
                   d \in plain, x \in prohibited_fields}

ClientCall(method, processing_purpose, contact_data) ==
    [op |-> "client", method |-> method, pc |-> "wrapper", country_code |-> "lt",
     contact_id |-> 1, processing_purpose |-> processing_purpose,
     contact_data |-> contact_data, sent |-> <<>>, error |-> "none"]

ClientCalls ==
    {ClientCall(m, q, PyNone) :
        m \in {"get_contacts", "delete_contact"},
        q \in {NoPurpose, "BITRIX_SYNC", ErasurePurpose}}
      \cup {ClientCall("update_contact", q, d) :
               q \in {NoPurpose, "BITRIX_SYNC"}, d \in UpdateInputs}

UnitRest ==
    UNCHANGED <<settings, consents, erasure, local, snapshots, syncRecords,
                processing_log, transmitted, pass, callers, quiet, runs, edits>>

\* The wrapper: sovereignty, purpose keyword, consent.
ClientWrapper ==
    /\ unit.op = "client" /\ unit.pc = "wrapper"
    /\ LET outcome == gdpr_wrapper(DecoratorCountry, unit.processing_purpose)
       IN  unit' = IF outcome = "ok" THEN [unit EXCEPT !.pc = "body"]
                   ELSE [unit EXCEPT !.pc = "raised", !.error = outcome]
    /\ UNCHANGED <<now, remote>>
    /\ UnitRest

\* delete_contact accepts every purpose.
PurposeAllowedAny(processing_purpose) == TRUE
\* if processing_purpose != 'ARTICLE_17_ERASURE': raise GDPRComplianceError
PurposeAllowed(processing_purpose) == processing_purpose = ErasurePurpose

\* The statements of the method before its first request.
ClientBody ==
    /\ unit.op = "client" /\ unit.pc = "body"
    /\ unit' =
         CASE unit.method = "get_contacts" -> [unit EXCEPT !.pc = "request"]
           [] unit.method = "delete_contact" ->
                IF ~PurposeAllowed(unit.processing_purpose)
                THEN [unit EXCEPT !.pc = "raised", !.error = "GDPRComplianceError"]
                ELSE [unit EXCEPT !.pc = "snapshot"]
           [] unit.method = "update_contact" ->
                IF HasProhibited(unit.contact_data)
                THEN [unit EXCEPT !.pc = "raised", !.error = "GDPRComplianceError"]
                ELSE IF UpdateRaises(unit.contact_data)
                     THEN [unit EXCEPT !.pc = "raised", !.error = "AttributeError"]
                     ELSE [unit EXCEPT !.pc = "request"]
    /\ UNCHANGED <<now, remote>>
    /\ UnitRest

\* delete_contact: the crm.contact.get request of the snapshot; whatever it
\* raises is logged and the method goes on.
ClientSnapshot ==
    /\ unit.op = "client" /\ unit.pc = "snapshot"
    /\ unit' = [unit EXCEPT !.pc = "request", !.sent = Append(@, "crm.contact.get")]
    /\ UNCHANGED <<now, remote>>
    /\ UnitRest

Endpoint(method) ==
    CASE method = "get_contacts"   -> "crm.contact.list"
      [] method = "update_contact" -> "crm.contact.update"
      [] method = "delete_contact" -> "crm.contact.delete"

\* The request of the method: answered, or BitrixAPIError.
ClientRequest ==
    /\ unit.op = "client" /\ unit.pc = "request"
    /\ \E n \in Failing :
          IF make_request(n, 0).raised
          THEN /\ unit' = [unit EXCEPT !.pc = "raised", !.error = "BitrixAPIError",
                                       !.sent = Append(@, Endpoint(unit.method))]
               /\ UNCHANGED <<now, remote>>
          ELSE /\ unit' = [unit EXCEPT !.pc = "returned",
                                       !.sent = Append(@, Endpoint(unit.method))]
               /\ CASE unit.method = "get_contacts" -> UNCHANGED <<now, remote>>
                    [] unit.method = "update_contact" ->
                         /\ remote' = [remote EXCEPT ![unit.country_code][unit.contact_id] =
                               RemoteUpdated(@, bitrix_data(unit.contact_id, unit.contact_data),
                                             Stamp)]
                         /\ now' = Stamp
                    [] unit.method = "delete_contact" ->
                         /\ remote' = [remote EXCEPT ![unit.country_code][unit.contact_id] =
                                          Absent]
                         /\ UNCHANGED now
    /\ UnitRest

\* The functions are called on their own: no sync pass runs.
InitUnit ==
    /\ InitData
    /\ callers = {}
    /\ unit \in UNION {{MaskCall(d, c, o) :
                            d \in MaskInputs, o \in Orders(SpecialFields(c))} :
                        c \in MaskCountries}
                \cup {RequestCall(plan) : plan \in NetworkPlans}
                \cup ClientCalls

NextUnit ==
    \/ MaskStep
    \/ MaskReturn
    \/ MaskAgain
    \/ RequestAnswered
    \/ RequestRetried
    \/ RequestGivesUp
    \/ ClientWrapper
    \/ ClientBody
    \/ ClientSnapshot
    \/ ClientRequest

SpecUnit == InitUnit /\ [][NextUnit]_vars

\* A call that can take a step takes it: the interpreter does not stop.
FairSpecUnit == SpecUnit /\ WF_vars(NextUnit)

(***************************************************************************)
(* Properties                                                              *)
(***************************************************************************)
RuledFields == {"religion", "sacrament_dates", "burial_location"}

\* C1: every update the remote received carries, for each field that has a
\* masking rule, the rule applied to the value of the local record that was
\* pushed: no ruled field is transmitted in its raw form.
C1_PushedFieldsMasked ==
    \A t \in transmitted :
        /\ t.fields.UF_CRM_1565773321 = Rule("religion", t.contact["religion"])
        /\ t.fields.UF_CRM_1565773389 =
              json_dumps(Rule("sacrament_dates", t.contact["sacrament_dates"]))
        /\ t.fields.UF_CRM_1565773407 =
              json_dumps(Rule("burial_location", t.contact["burial_location"]))

\* C2: once the erasure request of a contact has been processed, every local
\* record with that remote identifier is and stays anonymised, whatever the
\* remote returns to later passes.
C2_ErasureTerminal ==
    \A id \in Ids :
        erasure[id] = "processed" =>
            \A pk \in Pks :
                (local[pk] # NoRow /\ local[pk].bitrix_id = id) =>
                    /\ local[pk].erasure_processed
                    /\ local[pk].first_name = REDACTED
                    /\ local[pk].last_name = REDACTED
                    /\ local[pk].phone = PyNone
                    /\ local[pk].email = PyNone

\* A later pass pulled contact 1 again, with data, after its erasure had been
\* processed, and went past it.
C2_Witness ==
    /\ erasure[1] = "processed"
    /\ local[1].first_name = REDACTED
    /\ \E p \in Passes :
          /\ pass[p].pc = "contacts" /\ pass[p].i = 2
          /\ pass[p].raw[1].ID = 1
          /\ pass[p].stats.deleted = 0

\* C3: when the push of a record failed on every attempt, the report counts
\* it as an error, the checkpoint stays at the value T the pass read when it
\* started, and the next pass pushes the record again.
C3_FailedPushKeepsCheckpoint ==
    \A p \in Passes :
        /\ (pass[p].pc = "done" /\ pass[p].failed # {}) =>
              /\ pass[p].stats.errors >= Cardinality(pass[p].failed)
              /\ get_last_sync(pass[p].country_code) = pass[p].last_sync
        /\ (pass[p].pc = "done" /\ pass[p].owed # {}) =>
              pass[p].owed \subseteq
                  {pass[p].local_changes[n]["bitrix_id"].v :
                      n \in 1..Len(pass[p].local_changes)}

\* C4: after a pass that ended with no error at all, the checkpoint is the
\* time at which the pass started.
C4_CheckpointIsStartTime ==
    \A p \in Passes :
        (pass[p].pc = "done" /\ pass[p].stats.errors = 0) =>
            get_last_sync(pass[p].country_code) = pass[p].started_at

\* C5: the checkpoint of a partition never decreases, whatever the passes do
\* (return, return with errors, raise).
C5_CheckpointMonotone ==
    [][\A c \in Countries : get_last_sync(c)' >= get_last_sync(c)]_vars

\* A pass raised after an earlier one had set the checkpoint.
C5_Witness ==
    /\ Len(syncRecords) = 2
    /\ syncRecords[1].status = "success"
    /\ syncRecords[2].status = "failure"
    /\ get_last_sync("lt") = syncRecords[1].timestamp

\* C6: a pass started right after a pass returned its report, with nobody
\* changing anything until it returns, reports created = updated = deleted = 0.
C6_SecondPassDoesNothing ==
    \A p \in Passes :
        (pass[p].pc = "done" /\ pass[p].idem) =>
            /\ pass[p].stats.created = 0
            /\ pass[p].stats.updated = 0
            /\ pass[p].stats.deleted = 0

\* The second of two passes in a row returned; the first one had pushed.
C6_Witness ==
    /\ pass[1].pc = "done" /\ pass[1].idem
    /\ transmitted # {}

\* C7: at no time are two passes of the same partition running.
C7_OnePassPerPartition ==
    \A p, q \in Passes :
        (p # q /\ pass[p].pc \notin Resting /\ pass[q].pc \notin Resting) =>
            pass[p].country_code # pass[q].country_code

\* C8: when the pull raises BitrixAPIError the pass raises at once: it has
\* created, updated, erased and pushed nothing, it writes a failure record
\* and the checkpoint is unchanged.
C8_PullFailureAborts ==
    [][\A p \in Passes :
          (pass[p].pc = "pull" /\ pass'[p].pc = "raised"
              /\ pass'[p].cause = "BitrixAPIError") =>
            /\ pass[p].stats = Stats0 /\ pass'[p].stats = Stats0
            /\ pass[p].attempted = 0
            /\ UNCHANGED <<local, remote, erasure, snapshots, processing_log, transmitted>>
            /\ Len(syncRecords') = Len(syncRecords) + 1
            /\ Last(syncRecords').status = "failure"
            /\ get_last_sync(pass[p].country_code)' = get_last_sync(pass[p].country_code)
      ]_vars

\* A pull failed for good while a checkpoint was set.
C8_Witness ==
    \E p \in Passes :
        /\ pass[p].pc = "raised" /\ pass[p].cause = "BitrixAPIError"
        /\ get_last_sync(pass[p].country_code) # NoTime
        /\ Last(syncRecords).status = "failure"

\* C9: a pass that reached the push loop returns, having called
\* update_contact once for every local change, and having counted every
\* failed push as an error; a failed push never makes the pass raise.
C9_PushFailureContinues ==
    \A p \in Passes :
        /\ pass[p].pc = "done" =>
              /\ pass[p].attempted = Len(pass[p].local_changes)
              /\ pass[p].stats.errors >= Cardinality(pass[p].failed)
        /\ pass[p].pc = "raised" => pass[p].attempted = 0

\* The push of the first change failed and the second change was pushed.
C9_Witness ==
    \E p \in Passes :
        /\ pass[p].pc = "done"
        /\ Len(pass[p].local_changes) = 2
        /\ pass[p].failed = {pass[p].local_changes[1]["bitrix_id"].v}
        /\ pass[p].stats.updated = 1

\* C10: where the masking rule of a field raises on the pulled value, the
\* masked contact holds None for the field and not the pulled value; the
\* other fields are masked as usual and the contact is in the list the pass
\* works through.
C10_FailedMaskingGivesNone ==
    \A p \in Passes :
        pass[p].pc = "contacts" =>
            /\ Len(pass[p].bitrix_contacts) = Len(pass[p].raw)
            /\ \A n \in 1..Len(pass[p].raw) :
                  LET pulled == standard_contact(pass[p].raw[n])
                      masked == pass[p].bitrix_contacts[n]
                  IN  /\ DOMAIN masked = DOMAIN pulled
                      /\ \A f \in RuledFields :
                            IF RuleThrows(f, pulled[f])
                            THEN masked[f] = PyNone /\ masked[f] # pulled[f]
                            ELSE masked[f] = Rule(f, pulled[f])
                      /\ \A f \in DOMAIN pulled \ RuledFields : masked[f] = pulled[f]

\* The rules of religion, sacrament_dates and burial_location all raised on a
\* pulled contact, and the pass went past it.
C10_Witness ==
    \E p \in Passes :
        /\ pass[p].pc = "contacts" /\ pass[p].i > 1
        /\ \A f \in RuledFields :
              /\ RuleThrows(f, standard_contact(pass[p].raw[1])[f])
              /\ pass[p].bitrix_contacts[1][f] = PyNone


C12_RequestInvariant ==
    unit.op \in {"request", "returned", "raised"} =>
        /\ unit.requests <= MAX_RETRIES + 1
        /\ Len(unit.slept) = unit.retry_count
        /\ \A k \in 1..Len(unit.slept) : unit.slept[k] = k * RETRY_DELAY
        /\ unit.op = "returned" =>
              /\ ~unit.plan.always
              /\ unit.requests = unit.plan.failing + 1
        /\ unit.op = "raised" =>
              /\ unit.requests = MAX_RETRIES + 1
              /\ unit.plan.always \/ unit.plan.failing > MAX_RETRIES
        /\ unit.op \in {"returned", "raised"} =>
              make_request(IF unit.plan.always THEN MAX_RETRIES + 1
                           ELSE unit.plan.failing, 0)
                  = [raised |-> unit.op = "raised", requests |-> unit.requests]

\* C12: the bounds above hold at every step of a call of _make_request, and
\* every call that was made returns or raises.
C12_RequestTerminates ==
    /\ []C12_RequestInvariant
    /\ (unit.op = "request") ~> (unit.op \in {"returned", "raised"})

\* The call was answered at its third request, after sleeping 1.5 s and 3 s.
C12_Witness ==
    /\ unit.op = "returned"
    /\ unit.requests = 3
    /\ unit.slept = <<RETRY_DELAY, 2 * RETRY_DELAY>>


\* The pass is about to call a method of the client that is wrapped by
\* gdpr_compliance_check: get_contacts, delete_contact or update_contact.
DecoratedCall(p) ==
    \/ pass[p].pc = "pull"
    \/ InContacts(p) /\ is_erasure_requested(CurrentId(p))
    \/ InPush(p)

C14_ReappearedContactIsDeletedAgain ==
    [][\A p \in Passes :
          ( /\ InContacts(p)
            /\ erasure[CurrentId(p)] = "processed"
            /\ \/ pass'[p].pc # pass[p].pc
               \/ pass'[p].i # pass[p].i ) =>
              /\ pass'[p].pc = "delete"
              /\ \A pk \in RowOf(CurrentId(p)) : local'[pk] = Anonymized(local[pk])
      ]_vars


\* The local rows a change handed to update_contact was made from.
RowsOfChange(change) == RowOf(change["bitrix_id"].v)

\* C15: every record in the list a pass pushes has a remote identifier, was
\* created or modified at or after the checkpoint the pass read, and is not
\* an erased (anonymised) record.
C15_OnlyLiveChangesArePushed ==
    \A p \in Passes :
        pass[p].pc = "push" =>
            \A n \in 1..Len(pass[p].local_changes) :
                /\ pass[p].local_changes[n]["bitrix_id"].v # NoBitrixId
                /\ \A pk \in RowsOfChange(pass[p].local_changes[n]) :
                      /\ ~local[pk].erasure_processed
                      /\ pass[p].last_sync # NoTime =>
                            \/ local[pk].created_at >= pass[p].last_sync
                            \/ local[pk].updated_at >= pass[p].last_sync
                /\ pass[p].local_changes[n]["first_name"] # REDACTED


C17_TouchedRecordsAreLogged ==
    /\ \A t \in transmitted :
          \E n \in 1..Len(processing_log) :
              processing_log[n].entity_id \in RowsOfChange(t.contact)
    /\ \A id \in Ids :
          erasure[id] = "processed" =>
              \E n \in 1..Len(processing_log) :
                  processing_log[n].entity_id \in RowOf(id)


\* C18: when the pass leaves a pulled contact that is not awaiting erasure,
\* the Contact table holds exactly one row with its remote identifier, the
\* fields of the row are the masked pulled fields, and the contact is
\* counted in created if no row had the identifier before, in updated if
\* one had.
C18_PulledContactIsUpserted ==
    [][\A p \in Passes :
          ( /\ InContacts(p)
            /\ ~is_erasure_requested(CurrentId(p))
            /\ pass'[p].i = pass[p].i + 1 ) =>
              /\ Cardinality({pk \in Pks : /\ local'[pk] # NoRow
                                           /\ local'[pk].bitrix_id = CurrentId(p)}) = 1
              /\ \A pk \in Pks :
                    (local'[pk] # NoRow /\ local'[pk].bitrix_id = CurrentId(p)) =>
                        /\ local'[pk].first_name = Current(p)["first_name"]
                        /\ local'[pk].last_name = Current(p)["last_name"]
                        /\ local'[pk].religion = Current(p)["religion"]
                        /\ local'[pk].sacrament_records = Current(p)["sacrament_dates"]
                        /\ local'[pk].burial_location = Current(p)["burial_location"]
              /\ pass'[p].stats =
                    Bump(pass[p].stats,
                         IF RowOf(CurrentId(p)) = {} THEN "created" ELSE "updated")
      ]_vars


\* Pass p takes a step.
StepOf(p) ==
    \/ pass'[p].pc # pass[p].pc
    \/ pass'[p].i # pass[p].i
    \/ pass'[p].j # pass[p].j

\* C19: under every interleaving of the passes of two partitions, a step of
\* the pass of one partition changes no local row of a contact of the other
\* partition (it neither creates, updates nor erases it) and does not change
\* the checkpoint of the other partition.
C19_PartitionsAreIndependent ==
    [][\A p \in Passes :
          (pass[p].pc \notin Resting /\ StepOf(p)) =>
              /\ \A pk \in Pks :
                    local'[pk] # local[pk] =>
                        /\ local[pk] # NoRow => local[pk].country_code = pass[p].country_code
                        /\ local'[pk] # NoRow => local'[pk].country_code = pass[p].country_code
              /\ \A c \in Countries \ {pass[p].country_code} :
                    get_last_sync(c)' = get_last_sync(c)
      ]_vars


\* C20: processing a window a second time changes nothing; in particular
\* masking a record that is already masked returns it as it is:
\* mask(mask(r)) = mask(r).
C20_MaskingIsIdempotent ==
    (unit.op = "masked" /\ unit.round = 2) => unit.masked = unit.first

\* C21: for Lithuania, whatever the letter case of the country code, the
\* record mask_special_category_data returns carries no confession_records
\* data: the field is absent or None.
C21_ConfessionRecordsNeverReturned ==
    ( /\ unit.op = "masked"
      /\ unit.country_code \in {"lt", "LT"}
      /\ "confession_records" \in DOMAIN unit.given ) =>
        \/ "confession_records" \notin DOMAIN unit.masked
        \/ unit.masked["confession_records"] = PyNone

C24_ConsentGate ==
    unit.op = "client" =>
        /\ (unit.method \in {"get_contacts", "update_contact"} /\ unit.sent # <<>>) =>
              /\ unit.processing_purpose # NoPurpose
              /\ \E c \in consents : /\ c.country_code = unit.country_code
                                     /\ c.processing_purpose = unit.processing_purpose
                                     /\ c.fresh
        /\ ( /\ unit.method = "delete_contact"
             /\ unit.processing_purpose = ErasurePurpose
             /\ settings.CLOUD_ENV # "GKE"
             /\ unit.pc = "raised" ) => unit.error # "GDPRComplianceError"

\* C25: each pulled record is processed in one transaction.  A step of the
\* loop that counts the record as an error leaves the contacts, the erasure
\* flags, the snapshots and the processing log as they were, adds exactly one
\* to errors and goes on to the next record; a step that commits writes all
\* of its effects: the erasure mark with the anonymisation of every row of
\* the contact, or the upserted row with its log entry.
C25_RecordsAreAtomic ==
    [][ \A p \in Passes :
          ( /\ pass[p].pc \in {"contacts", "delete"}
            /\ <<pass'[p].pc, pass'[p].i, pass'[p].stats>>
                  # <<pass[p].pc, pass[p].i, pass[p].stats>> ) =>
            /\ pass'[p].stats["errors"] # pass[p].stats["errors"] =>
                  /\ pass'[p].stats = Bump(pass[p].stats, "errors")
                  /\ local' = local /\ erasure' = erasure
                  /\ snapshots' = snapshots /\ processing_log' = processing_log
                  /\ pass'[p].pc = "contacts" /\ pass'[p].i = pass[p].i + 1
                  /\ pass'[p].bitrix_contacts = pass[p].bitrix_contacts
            /\ (erasure' # erasure \/ snapshots' # snapshots) =>
                  /\ erasure'[CurrentId(p)] = "processed"
                  /\ \A pk \in Pks :
                        (local[pk] # NoRow /\ local[pk].bitrix_id = CurrentId(p)) =>
                            /\ local'[pk].erasure_processed
                            /\ local'[pk].first_name = REDACTED
                            /\ local'[pk].phone = PyNone
                  /\ pass'[p].stats = Bump(pass[p].stats, "deleted")
            /\ (local' # local /\ erasure' = erasure) =>
                  Len(processing_log') = Len(processing_log) + 1
            /\ processing_log' # processing_log => local' # local ]_vars

\* A pass counted its first pulled record as an error, with the erasure it
\* had marked undone, and went on to the records after it.
C25_Witness ==
    \E p \in Passes :
        /\ pass[p].pc = "contacts"
        /\ Len(pass[p].bitrix_contacts) >= 2
        /\ pass[p].i > 2
        /\ pass[p].stats["errors"] >= 1
        /\ \E id \in DOMAIN erasure : erasure[id] = "requested"

\* C26: a call of _make_request sends at most MAX_RETRIES HTTP requests.
C26_AtMostMaxRetriesRequests ==
    unit.op \in {"request", "returned", "raised"} => unit.requests <= MAX_RETRIES

\* C28: a pending erasure request for a contact the remote holds is
\* processed by the passes that run after it.  A pass that started with
\* the request pending, with the consents that let delete_contact through,
\* had each of its remote calls answered and returned its stats without an
\* error has processed it.
C28_PendingErasureIsProcessed ==
    \A p \in Passes :
        ( /\ pass[p].pc = "done" /\ pass[p].stats["errors"] = 0
          /\ gdpr_compliance_check(DecoratorCountry, ErasurePurpose) = "ok" ) =>
            \A id \in pass[p].pending : erasure[id] # "requested"

\* Bitrix24Client.__init__: self.country_code = country_code.lower()
lower(country_code) == IF country_code = "LT" THEN "lt" ELSE country_code

\* C29: the rules applied do not depend on the letter case of the country
\* code: a record masked with the code of a client created for Lithuania,
\* written 'lt' or 'LT', comes back as the Lithuanian rules leave it (default
\* rules, next_of_kin redacted).
C29_RulesIgnoreLetterCase ==
    \A created_for \in MaskCountries :
        ( /\ unit.op = "masked" /\ unit.round = 1
          /\ unit.country_code = lower(created_for) ) =>
            /\ unit.masked = mask_special_category_data(unit.given, "LT")
            /\ ("next_of_kin" \in DOMAIN unit.given
                  /\ ~NextOfKinThrows(unit.given["next_of_kin"])) =>
                  unit.masked["next_of_kin"] = NextOfKinRule(unit.given["next_of_kin"])

====
